---- MODULE Spec2Model ----
(***************************************************************************)
(* Model of webspheretraditional/xtrace_stats.py: compute_stats reads a    *)
(* trace file line by line, turns time-of-day stamps into absolute         *)
(* milliseconds (midnight rollover), keeps one call stack per thread id    *)
(* and aggregates count / total duration per method.                       *)
(*                                                                         *)
(* One step of the model is one iteration of the file loop (one line).     *)
(***************************************************************************)
EXTENDS Integers, Sequences, FiniteSets, TLC

\* ------------------------------------------------------------------ bounds
\* Number of lines of the input file that are read.
MaxLines == 4
\* Largest count of a method in the stats tables the report is checked on.
MaxCount == 2
\* Largest --top argument.
MaxTop == 2

\* ------------------------------------------------------------ input universe
Tids == {"0x1", "0x2"}
Methods == {"foo()V", "bar()V"}

\* A timestamp token, as the four \d+ fields LINE_RE admits (HH MM SS mmm).
TS(h, m, s, ms) == [h |-> h, m |-> m, s |-> s, ms |-> ms]
BeforeMidnight == TS(23, 59, 59, 900)
AfterMidnight == TS(0, 0, 0, 100)
\* \d{2} also admits an hour field outside 0..23.
OutOfRange == TS(48, 0, 0, 0)

\* Stamps of a trace whose fields are all in range.
Timestamps == {BeforeMidnight, AfterMidnight}
\* Stamps of a trace that also carries an out-of-range hour field.
SkewTimestamps == {OutOfRange, AfterMidnight}
\* Stamps away from midnight: the one of the module docstring and a later one.
Evening == TS(21, 0, 5, 736)
EveningLater == TS(21, 0, 5, 786)
EveningTimestamps == {Evening, EveningLater}

\* Python's None, for the optional values of the code.
None == <<>>
Some(v) == <<v>>

DayMs == 24 * 60 * 60 * 1000

\* ------------------------------------------------------------------- state
VARIABLES
    stacks,       \* tid -> sequence of <<method, start_ms_abs>> (top = last)
    stats,        \* method -> [count, total_ms]; keys created on first use
    last_abs_ms,  \* None or Some(absolute ms of the previous parsed event)
    day_offset,   \* accumulated rollover offset
    ln,           \* number of lines read so far
    line,         \* the line just processed
    abs_ms,       \* absolute time given to the last parsed event (None if none)
    pre,          \* stacks, stats and clock as they were before that line
    trace,        \* the parsed events so far, each with its absolute time
    pc,           \* where the run stands: "reading", "eof", "returned", "sorted", "printed"
    args,         \* the parsed command line: [sort, top]
    returned,     \* the list compute_stats returned
    rows          \* main's rows

report == <<pc, args, returned, rows>>
vars == <<stacks, stats, last_abs_ms, day_offset, ln, line, abs_ms, pre, trace,
          pc, args, returned, rows>>

\* ------------------------------------------------------------ pure helpers
\* parse_ts_ms: milliseconds since start of day.
parse_ts_ms(ts) == ((ts.h * 60 + ts.m) * 60 + ts.s) * 1000 + ts.ms

\* defaultdict(list) read: a missing key reads as the empty list.
StackOf(st, tid) == IF tid \in DOMAIN st THEN st[tid] ELSE <<>>

\* defaultdict(list) write of one key.
SetStack(st, tid, stk) ==
    [t \in DOMAIN st \cup {tid} |-> IF t = tid THEN stk ELSE st[t]]

\* Rollover correction of one parsed stamp: the new day_offset and abs_ms.
\* Variant: no rollover correction.
ClockNoRollover(ms, offset, last) == [day_offset |-> offset, abs_ms |-> ms + offset]
\* Variant: rolls over on an equal time as well.
ClockLeq(ms, offset, last) ==
    IF last # None /\ ms + offset <= last[1]
    THEN [day_offset |-> offset + DayMs, abs_ms |-> ms + offset + DayMs]
    ELSE [day_offset |-> offset, abs_ms |-> ms + offset]
Clock(ms, offset, last) ==
    IF last # None /\ ms + offset < last[1]
    THEN [day_offset |-> offset + DayMs, abs_ms |-> ms + offset + DayMs]
    ELSE [day_offset |-> offset, abs_ms |-> ms + offset]

\* stacks[tid].append((method, abs_ms))
\* Variant: one stack for all threads.
PushShared(st, tid, frame) == SetStack(st, "0x1", Append(StackOf(st, "0x1"), frame))
\* Variant: the frame goes to the bottom of the stack.
PushFront(st, tid, frame) == SetStack(st, tid, <<frame>> \o StackOf(st, tid))
Push(st, tid, frame) == SetStack(st, tid, Append(StackOf(st, tid), frame))

\* The search loop: pop from the top until a frame of `method` is found;
\* the frames popped on the way are collected in temp.
Reverse(s) == [i \in 1..Len(s) |-> s[Len(s) + 1 - i]]
\* Variant: the oldest frame of the method is taken.
PopLoopOutermost(stk, method, temp) ==
    LET hits == {i \in 1..Len(stk) : stk[i][1] = method}
    IN  IF hits = {}
        THEN [stack |-> <<>>, temp |-> temp \o Reverse(stk),
              start_method |-> None, start_ms |-> None]
        ELSE LET i == CHOOSE x \in hits : \A y \in hits : x <= y
             IN  [stack |-> SubSeq(stk, 1, i - 1),
                  temp |-> temp \o Reverse(SubSeq(stk, i + 1, Len(stk))),
                  start_method |-> Some(method), start_ms |-> Some(stk[i][2])]
RECURSIVE PopLoop(_, _, _)
PopLoop(stk, method, temp) ==
    IF stk = <<>>
    THEN [stack |-> stk, temp |-> temp, start_method |-> None, start_ms |-> None]
    ELSE LET top == stk[Len(stk)]
             rest == SubSeq(stk, 1, Len(stk) - 1)
         IN  IF top[1] = method
             THEN [stack |-> rest, temp |-> temp,
                   start_method |-> Some(top[1]), start_ms |-> Some(top[2])]
             ELSE PopLoop(rest, method, Append(temp, top))
\* "Put back anything we popped that wasn't the match": temp is emptied
\* from its end, so the frames return in their original order.
\* Variant: the frames popped above the match are dropped.
PutBackDiscard(stk, temp) == stk
\* Variant: the popped frames return in popping order.
PutBackReversed(stk, temp) == stk \o temp
RECURSIVE PutBack(_, _)
PutBack(stk, temp) ==
    IF temp = <<>>
    THEN stk
    ELSE PutBack(Append(stk, temp[Len(temp)]), SubSeq(temp, 1, Len(temp) - 1))

\* defaultdict(lambda: {'count': 0, 'total_ms': 0}) read.
StatOf(st, method) ==
    IF method \in DOMAIN st THEN st[method] ELSE [count |-> 0, total_ms |-> 0]

\* if dur >= 0: s = stats[method]; s['count'] += 1; s['total_ms'] += dur
\* Variant: no test of the duration's sign.
AggregateUnchecked(st, method, dur) ==
    [m \in DOMAIN st \cup {method} |->
        IF m = method
        THEN [count |-> StatOf(st, m).count + 1,
              total_ms |-> StatOf(st, m).total_ms + dur]
        ELSE st[m]]
\* Variant: the total is overwritten, not added to.
AggregateOverwrite(st, method, dur) ==
    IF dur >= 0
    THEN [m \in DOMAIN st \cup {method} |->
            IF m = method
            THEN [count |-> StatOf(st, m).count + 1, total_ms |-> dur]
            ELSE st[m]]
    ELSE st
\* Variant: stats[method] is read before the sign test.
AggregateTouch(st, method, dur) ==
    [m \in DOMAIN st \cup {method} |->
        IF m = method /\ dur >= 0
        THEN [count |-> StatOf(st, m).count + 1,
              total_ms |-> StatOf(st, m).total_ms + dur]
        ELSE StatOf(st, m)]
Aggregate(st, method, dur) ==
    IF dur >= 0
    THEN [m \in DOMAIN st \cup {method} |->
            IF m = method
            THEN [count |-> StatOf(st, m).count + 1,
                  total_ms |-> StatOf(st, m).total_ms + dur]
            ELSE st[m]]
    ELSE st

\* -------------------------------------------------------------------- Init
Init ==
    /\ stacks = <<>>
    /\ stats = <<>>
    /\ last_abs_ms = None
    /\ day_offset = 0
    /\ ln = 0
    /\ line = [kind |-> "none"]
    /\ abs_ms = None
    /\ pre = [stacks |-> <<>>, stats |-> <<>>, last_abs_ms |-> None, day_offset |-> 0]
    /\ trace = <<>>
    /\ pc = "reading"
    /\ args = [sort |-> "avg", top |-> 0]
    /\ returned = <<>>
    /\ rows = <<>>

Snapshot ==
    [stacks |-> stacks, stats |-> stats,
     last_abs_ms |-> last_abs_ms, day_offset |-> day_offset]

\* ----------------------------------------------------------------- actions
\* Variant: a skipped line forgets the last absolute time.
SkipLineResetsClock ==
    /\ pc = "reading"
    /\ ln < MaxLines
    /\ ln' = ln + 1
    /\ line' = [kind |-> "skip"]
    /\ pre' = Snapshot
    /\ UNCHANGED report
    /\ last_abs_ms' = None
    /\ UNCHANGED <<stacks, stats, day_offset, abs_ms, trace>>
\* iter_lines: a blank line or one LINE_RE does not match is skipped; the
\* body of the loop in compute_stats never runs for it.
SkipLine ==
    /\ pc = "reading"
    /\ ln < MaxLines
    /\ ln' = ln + 1
    /\ line' = [kind |-> "skip"]
    /\ pre' = Snapshot
    /\ UNCHANGED report
    /\ UNCHANGED <<stacks, stats, last_abs_ms, day_offset, abs_ms, trace>>

\* Variant: only entries set the last absolute time.
TickLastOnEntry(ts, tid, arrow, method) ==
    LET c == Clock(parse_ts_ms(ts), day_offset, last_abs_ms)
    IN  /\ pc = "reading"
        /\ UNCHANGED report
        /\ ln < MaxLines
        /\ ln' = ln + 1
        /\ line' = [kind |-> "event", ts |-> ts, tid |-> tid,
                    arrow |-> arrow, method |-> method]
        /\ pre' = Snapshot
        /\ day_offset' = c.day_offset
        /\ abs_ms' = Some(c.abs_ms)
        /\ last_abs_ms' = IF arrow = ">" THEN Some(c.abs_ms) ELSE last_abs_ms
        /\ trace' = Append(trace, [tid |-> tid, arrow |-> arrow, method |-> method,
                                   ms |-> parse_ts_ms(ts), abs |-> c.abs_ms])
\* The clock part of the loop body, common to both arrows.
Tick(ts, tid, arrow, method) ==
    LET c == Clock(parse_ts_ms(ts), day_offset, last_abs_ms)
    IN  /\ pc = "reading"
        /\ UNCHANGED report
        /\ ln < MaxLines
        /\ ln' = ln + 1
        /\ line' = [kind |-> "event", ts |-> ts, tid |-> tid,
                    arrow |-> arrow, method |-> method]
        /\ pre' = Snapshot
        /\ day_offset' = c.day_offset
        /\ abs_ms' = Some(c.abs_ms)
        /\ last_abs_ms' = Some(c.abs_ms)
        /\ trace' = Append(trace, [tid |-> tid, arrow |-> arrow, method |-> method,
                                   ms |-> parse_ts_ms(ts), abs |-> c.abs_ms])

\* arrow == '>'
EntryEvent(ts, tid, method) ==
    /\ Tick(ts, tid, ">", method)
    /\ stacks' = Push(stacks, tid, <<method, abs_ms'[1]>>)
    /\ UNCHANGED stats

\* arrow == '<'
ExitEvent(ts, tid, method) ==
    /\ Tick(ts, tid, "<", method)
    /\ IF StackOf(stacks, tid) = <<>>
       THEN \* `if not stacks[tid]: continue` (the read creates the key)
            /\ stacks' = SetStack(stacks, tid, <<>>)
            /\ UNCHANGED stats
       ELSE LET r == PopLoop(StackOf(stacks, tid), method, <<>>)
                back == PutBack(r.stack, r.temp)
            IN  /\ stacks' = SetStack(stacks, tid, back)
                /\ IF r.start_method = None
                   THEN UNCHANGED stats
                   ELSE stats' = Aggregate(stats, method, abs_ms'[1] - r.start_ms[1])

Next ==
    \/ SkipLine
    \/ \E ts \in Timestamps, tid \in Tids, method \in Methods :
          EntryEvent(ts, tid, method)
    \/ \E ts \in Timestamps, tid \in Tids, method \in Methods :
          ExitEvent(ts, tid, method)

\* The same loop over a trace that carries an out-of-range hour field.
NextSkew ==
    \/ SkipLine
    \/ \E ts \in SkewTimestamps, tid \in Tids, method \in Methods :
          EntryEvent(ts, tid, method)
    \/ \E ts \in SkewTimestamps, tid \in Tids, method \in Methods :
          ExitEvent(ts, tid, method)

\* The same loop over a trace taken away from midnight.
NextEvening ==
    \/ SkipLine
    \/ \E ts \in EveningTimestamps, tid \in Tids, method \in Methods :
          EntryEvent(ts, tid, method)
    \/ \E ts \in EveningTimestamps, tid \in Tids, method \in Methods :
          ExitEvent(ts, tid, method)

Spec == Init /\ [][Next]_vars
SpecSkew == Init /\ [][NextSkew]_vars
SpecEvening == Init /\ [][NextEvening]_vars

\* ------------------------------------------------------------------ report
\* Method names of the report tables, two of them equal up to case.
ReportMethods == {"foo()V", "bar()V", "Bar()V"}
ReportTotals == {0, 100, 200}
SortArgs == {"avg", "count", "total", "method"}

\* The code points of a method name, which Python's str comparison reads.
Chars(m) ==
    CASE m = "foo()V" -> <<102, 111, 111, 40, 41, 86>>
      [] m = "bar()V" -> <<98, 97, 114, 40, 41, 86>>
      [] m = "Bar()V" -> <<66, 97, 114, 40, 41, 86>>
\* str.lower on ASCII code points.
Lower(cs) == [i \in 1..Len(cs) |-> IF cs[i] >= 65 /\ cs[i] <= 90 THEN cs[i] + 32 ELSE cs[i]]
\* str < str: lexicographic on code points, a proper prefix being smaller.
StrLess(a, b) ==
    \E i \in 1..(Len(b)) :
        /\ \A j \in 1..(i - 1) : j <= Len(a) /\ a[j] = b[j]
        /\ (i > Len(a) \/ (i <= Len(a) /\ a[i] < b[i]))
        /\ i - 1 <= Len(a)

\* total_ms / count as an exact fraction <<numerator, denominator>> in
\* lowest terms (the float quotient orders and compares the same way for
\* operands of this size); 0.0 when count is 0.
RECURSIVE Gcd(_, _)
Gcd(a, b) == IF b = 0 THEN a ELSE Gcd(b, a % b)
Avg(total_ms, count) ==
    IF count # 0
    THEN LET g == Gcd(total_ms, count) IN <<total_ms \div g, count \div g>>
    ELSE <<0, 1>>
AvgLess(x, y) == x[1] * y[2] < y[1] * x[2]

\* result.append((method, s['count'], s['total_ms'], avg))
RowOf(st, m) == <<m, st[m].count, st[m].total_ms, Avg(st[m].total_ms, st[m].count)>>

\* key(a) < key(b) for the sort keys of compute_stats ("avg") and main.
\* Variant: equal averages ordered by ascending count.
KeyLessCountAsc(k, a, b) ==
    \/ AvgLess(b[4], a[4])
    \/ a[4] = b[4] /\ a[2] < b[2]
    \/ a[4] = b[4] /\ a[2] = b[2] /\ StrLess(Chars(a[1]), Chars(b[1]))
KeyLess(k, a, b) ==
    CASE k = "avg" ->
            \/ AvgLess(b[4], a[4])
            \/ a[4] = b[4] /\ a[2] > b[2]
            \/ a[4] = b[4] /\ a[2] = b[2] /\ StrLess(Chars(a[1]), Chars(b[1]))
      [] k = "count" ->
            \/ a[2] > b[2]
            \/ a[2] = b[2] /\ AvgLess(b[4], a[4])
            \/ a[2] = b[2] /\ a[4] = b[4] /\ StrLess(Chars(a[1]), Chars(b[1]))
      [] k = "total" ->
            \/ a[3] > b[3]
            \/ a[3] = b[3] /\ a[2] > b[2]
            \/ a[3] = b[3] /\ a[2] = b[2] /\ StrLess(Chars(a[1]), Chars(b[1]))
      [] k = "method" -> StrLess(Lower(Chars(a[1])), Lower(Chars(b[1])))

\* list.sort(key=...): a stable sort; here by insertion, a row going in
\* before the first row whose key is greater.
\* Variant: a row whose key is already present is dropped.
InsertRowDedupe(sorted, row, k) ==
    LET later == {i \in 1..Len(sorted) : KeyLess(k, row, sorted[i])}
        same == {i \in 1..Len(sorted) :
                    ~KeyLess(k, row, sorted[i]) /\ ~KeyLess(k, sorted[i], row)}
        at == IF later = {} THEN Len(sorted) + 1
              ELSE CHOOSE i \in later : \A j \in later : i <= j
    IN  IF same # {} THEN sorted
        ELSE SubSeq(sorted, 1, at - 1) \o <<row>> \o SubSeq(sorted, at, Len(sorted))
InsertRow(sorted, row, k) ==
    LET later == {i \in 1..Len(sorted) : KeyLess(k, row, sorted[i])}
        at == IF later = {} THEN Len(sorted) + 1
              ELSE CHOOSE i \in later : \A j \in later : i <= j
    IN  SubSeq(sorted, 1, at - 1) \o <<row>> \o SubSeq(sorted, at, Len(sorted))
RECURSIVE SortRows(_, _)
SortRows(rs, k) ==
    IF rs = <<>> THEN <<>>
    ELSE InsertRow(SortRows(SubSeq(rs, 1, Len(rs) - 1), k), rs[Len(rs)], k)

\* The orders in which stats.items() may yield the keys of a table.
ItemOrders(st) ==
    {o \in [1..Cardinality(DOMAIN st) -> DOMAIN st] :
        \A i, j \in DOMAIN o : o[i] = o[j] => i = j}

\* The stats tables the loop can end with: any methods, each closed at
\* least once with a non-negative total.
ReportTables ==
    UNION {[ms -> [count : 1..MaxCount, total_ms : ReportTotals]] :
            ms \in SUBSET ReportMethods}

\* The run at the end of the file loop; what follows reads only stats and
\* the command line.
InitReport ==
    /\ stats \in ReportTables
    /\ args \in [sort : SortArgs, top : (-1)..MaxTop]
    /\ pc = "eof"
    /\ returned = <<>>
    /\ rows = <<>>
    /\ stacks = <<>>
    /\ last_abs_ms = None
    /\ day_offset = 0
    /\ ln = 0
    /\ line = [kind |-> "none"]
    /\ abs_ms = None
    /\ pre = [stacks |-> <<>>, stats |-> <<>>, last_abs_ms |-> None, day_offset |-> 0]
    /\ trace = <<>>

loop == <<stacks, stats, last_abs_ms, day_offset, ln, line, abs_ms, pre, trace>>

\* compute_stats, after the loop: build the rows, sort them, return.
ReturnRows ==
    /\ pc = "eof"
    /\ \E o \in ItemOrders(stats) :
          LET result == [i \in DOMAIN o |-> RowOf(stats, o[i])]
          IN  /\ returned' = SortRows(result, "avg")
              /\ rows' = returned'
    /\ pc' = "returned"
    /\ UNCHANGED <<loop, args>>

\* main: the --sort re-ordering of the returned rows.
ResortRows ==
    /\ pc = "returned"
    /\ rows' = IF args.sort \in {"count", "total", "method"}
               THEN SortRows(rows, args.sort)
               ELSE rows
    /\ pc' = "sorted"
    /\ UNCHANGED <<loop, args, returned>>

\* main: the --top truncation.
TopRows ==
    /\ pc = "sorted"
    /\ rows' = IF args.top # 0 /\ args.top > 0
               THEN SubSeq(rows, 1, IF args.top < Len(rows) THEN args.top ELSE Len(rows))
               ELSE rows
    /\ pc' = "printed"
    /\ UNCHANGED <<loop, args, returned>>

NextReport == ReturnRows \/ ResortRows \/ TopRows

SpecReport == InitReport /\ [][NextReport]_vars
\* ------------------------------------------------- vocabulary of the claims
IsEvent == line.kind = "event"
IsEntry == IsEvent /\ line.arrow = ">"
IsExit == IsEvent /\ line.arrow = "<"
\* The stack of the event's thread before the event.
PreStack == StackOf(pre.stacks, line.tid)
PostStack == StackOf(stacks, line.tid)
Hits(stk, m) == {i \in 1..Len(stk) : stk[i][1] = m}
MaxOf(S) == CHOOSE x \in S : \A y \in S : y <= x
\* Position (from the bottom) of the most recently pushed frame of m.
Innermost(stk, m) == MaxOf(Hits(stk, m))
RemoveAt(s, i) == SubSeq(s, 1, i - 1) \o SubSeq(s, i + 1, Len(s))
FramesOf(stk, m) == SelectSeq(stk, LAMBDA f : f[1] = m)
Matched == IsExit /\ Hits(PreStack, line.method) # {}
Unmatched == IsExit /\ Hits(PreStack, line.method) = {}
MatchedAt == Innermost(PreStack, line.method)
\* Duration of the interval a matched exit closes.
MatchedDur == abs_ms[1] - PreStack[MatchedAt][2]
\* An Entry event of the trace that pushed `frame` on thread tid.
PushedBy(tid, frame, upto) ==
    \E k \in 1..upto : /\ trace[k].arrow = ">"
                       /\ trace[k].tid = tid
                       /\ trace[k].method = frame[1]
                       /\ trace[k].abs = frame[2]

\* ---------------------------------------------------------------------- C1
\* C1 (as stated): a matched exit at depth k discards the k-1 frames above
\* the matched frame, leaving exactly the frames that were below it.
C1_FramesAboveDiscarded ==
    Matched => PostStack = SubSeq(PreStack, 1, MatchedAt - 1)

\* C1 (amended): a matched exit removes the matched frame only; the frames
\* above it are put back in their original order, so after Entry(A),
\* Entry(B), Exit(A) on one thread the B frame is still on the stack.
C1_FramesAboveKept ==
    /\ Matched => PostStack = RemoveAt(PreStack, MatchedAt)
    /\ ( /\ Len(trace) = 3
         /\ trace[1].arrow = ">" /\ trace[2].arrow = ">" /\ trace[3].arrow = "<"
         /\ trace[1].tid = trace[2].tid /\ trace[2].tid = trace[3].tid
         /\ trace[1].method = trace[3].method
         /\ trace[2].method # trace[1].method )
       => StackOf(stacks, trace[1].tid) = << <<trace[2].method, trace[2].abs>> >>

C1_Witness == Matched /\ MatchedAt < Len(PreStack)

\* ---------------------------------------------------------------------- C2
\* C2: a matched exit removes the most recently pushed frame of its method
\* (the earlier frames of that method stay), and the interval aggregated is
\* the event's absolute time minus that frame's start, the absolute time of
\* an Entry of that thread and method.
C2_InnermostFirst ==
    Matched =>
        LET m == line.method
            before == FramesOf(PreStack, m)
        IN  /\ FramesOf(PostStack, m) = SubSeq(before, 1, Len(before) - 1)
            /\ Len(PostStack) = Len(PreStack) - 1
            /\ abs_ms[1] = trace[Len(trace)].abs
            /\ PushedBy(line.tid, before[Len(before)], Len(trace) - 1)
            /\ LET d == abs_ms[1] - before[Len(before)][2]
               IN  IF d >= 0
                   THEN StatOf(stats, m).total_ms = StatOf(pre.stats, m).total_ms + d
                   ELSE stats = pre.stats

C2_Witness ==
    /\ Matched
    /\ Len(FramesOf(PreStack, line.method)) = 2
    /\ FramesOf(PreStack, line.method)[1][2] # FramesOf(PreStack, line.method)[2][2]
    /\ MatchedDur > 0

\* ---------------------------------------------------------------------- C3
\* Reference pairing, read off the trace alone: the entries still open after
\* the first k events, an exit closing the latest open entry of its thread
\* and method.
RECURSIVE RefOpen(_)
RefCands(k) ==
    {i \in RefOpen(k - 1) : trace[i].tid = trace[k].tid /\ trace[i].method = trace[k].method}
RefOpen(k) ==
    IF k = 0 THEN {}
    ELSE LET before == RefOpen(k - 1)
             cands == {i \in before : trace[i].tid = trace[k].tid
                                      /\ trace[i].method = trace[k].method}
         IN  IF trace[k].arrow = ">" THEN before \cup {k}
             ELSE IF cands = {} THEN before
             ELSE before \ {MaxOf(cands)}
\* The entry matched by the exit at position k, 0 if none.
RefMatch(k) ==
    LET cands == RefCands(k)
    IN  IF trace[k].arrow = "<" /\ cands # {} THEN MaxOf(cands) ELSE 0
RefMatchedExits(m) ==
    {k \in 1..Len(trace) : trace[k].method = m /\ RefMatch(k) # 0}
RefCount(m) ==
    Cardinality({k \in RefMatchedExits(m) : trace[k].abs - trace[RefMatch(k)].abs >= 0})

\* C3: after any prefix of the stream, the count of every method is the
\* number of its exits matched to a preceding, still-open entry of the same
\* thread with a non-negative duration.
C3_CountInvariant ==
    \A m \in Methods : StatOf(stats, m).count = RefCount(m)

C3_Witness ==
    \E m \in Methods :
        /\ StatOf(stats, m).count = 1
        /\ Cardinality(RefMatchedExits(m)) = 2
        /\ RefOpen(Len(trace)) = {}

\* ---------------------------------------------------------------------- C4
\* Bracket matching of each thread's events: [ok, open], open the methods
\* entered and not yet exited, per thread.
RECURSIVE Nest(_)
Nest(k) ==
    IF k = 0 THEN [ok |-> TRUE, open |-> [t \in Tids |-> <<>>]]
    ELSE LET p == Nest(k - 1)
             e == trace[k]
             o == p.open[e.tid]
         IN  IF ~p.ok THEN p
             ELSE IF e.arrow = ">"
                  THEN [ok |-> TRUE, open |-> [p.open EXCEPT ![e.tid] = Append(o, e.method)]]
             ELSE IF o # <<>> /\ o[Len(o)] = e.method
                  THEN [ok |-> TRUE,
                        open |-> [p.open EXCEPT ![e.tid] = SubSeq(o, 1, Len(o) - 1)]]
             ELSE [ok |-> FALSE, open |-> p.open]
WellNested ==
    /\ Nest(Len(trace)).ok
    /\ \A t \in Tids : Nest(Len(trace)).open[t] = <<>>
RECURSIVE SumAbs(_, _, _)
\* Sum of the absolute times of the first k events with this arrow and method.
SumAbs(k, arrow, m) ==
    IF k = 0 THEN 0
    ELSE SumAbs(k - 1, arrow, m)
         + (IF trace[k].arrow = arrow /\ trace[k].method = m THEN trace[k].abs ELSE 0)
CountOf(arrow, m) ==
    Cardinality({k \in 1..Len(trace) : trace[k].arrow = arrow /\ trace[k].method = m})

\* C4: when every thread's entries and exits are balanced and properly
\* nested, every stack is empty, every entry is counted once, and the
\* totals are the sum over the pairs of exit time minus entry time.
C4_WellNestedTotals ==
    WellNested =>
        /\ \A t \in Tids : StackOf(stacks, t) = <<>>
        /\ \A m \in Methods :
              /\ StatOf(stats, m).count = CountOf(">", m)
              /\ StatOf(stats, m).total_ms = SumAbs(Len(trace), "<", m) - SumAbs(Len(trace), ">", m)

C4_Witness ==
    /\ WellNested
    /\ Len(trace) = 4
    /\ trace[1].arrow = ">" /\ trace[2].arrow = ">"
    /\ trace[1].tid = trace[2].tid
    /\ trace[1].method = "foo()V" /\ trace[2].method = "bar()V"
    /\ StatOf(stats, "bar()V").count = 1 /\ StatOf(stats, "foo()V").count = 1
    /\ StatOf(stats, "bar()V").total_ms > 0
    /\ StatOf(stats, "foo()V").total_ms > StatOf(stats, "bar()V").total_ms

\* ---------------------------------------------------------------------- C5
\* C5: an exit whose thread has no frame of its method changes neither the
\* stats nor any thread's stack.
C5_UnmatchedExitDropped ==
    Unmatched =>
        /\ stats = pre.stats
        /\ \A t \in Tids : StackOf(stacks, t) = StackOf(pre.stacks, t)

C5_Witness ==
    /\ Unmatched
    /\ Len(PreStack) = 2
    /\ PreStack[1] # PreStack[2]

\* ---------------------------------------------------------------------- C6
\* C6: an event of thread T leaves every other thread's stack unchanged,
\* every frame on a thread's stack was pushed by an Entry of that thread,
\* and so was the frame a matched exit closes.
C6_ThreadIsolation ==
    /\ IsEvent => \A t \in Tids \ {line.tid} : StackOf(stacks, t) = StackOf(pre.stacks, t)
    /\ \A t \in Tids : \A i \in 1..Len(StackOf(stacks, t)) :
          PushedBy(t, StackOf(stacks, t)[i], Len(trace))
    /\ Matched => PushedBy(line.tid, PreStack[MatchedAt], Len(trace) - 1)

C6_Witness ==
    /\ Matched
    /\ \E t \in Tids \ {line.tid} :
          /\ StackOf(stacks, t) # <<>>
          /\ StackOf(stacks, t)[1][1] = line.method

\* ---------------------------------------------------------------------- C7
InRange(k) == trace[k].ms >= 0 /\ trace[k].ms < DayMs

\* C7: when every time of day is in range, the absolute times are
\* non-negative and never decrease from one parsed event to the next.
C7_ClockMonotone ==
    (\A k \in 1..Len(trace) : InRange(k)) =>
        \A k \in 1..Len(trace) :
            /\ trace[k].abs >= 0
            /\ k > 1 => trace[k].abs >= trace[k - 1].abs

C7_Witness ==
    /\ Len(trace) >= 3
    /\ \A k \in 1..Len(trace) : InRange(k)
    /\ day_offset = 2 * DayMs

\* ---------------------------------------------------------------------- C8
\* C8: day_offset starts at 0, is a multiple of a day, grows by one day
\* exactly when a previous event exists and time_of_day + day_offset is
\* below the last absolute time; the absolute time is time_of_day plus the
\* new offset. 23:59:59:900 followed by 00:00:00:100 are 200 ms apart, and
\* an Entry and its Exit at these stamps give duration 200.
C8_RolloverRule ==
    /\ ln = 0 => day_offset = 0
    /\ day_offset % DayMs = 0
    /\ IsEvent =>
          LET ms == parse_ts_ms(line.ts)
              roll == pre.last_abs_ms # None /\ ms + pre.day_offset < pre.last_abs_ms[1]
          IN  /\ roll => day_offset = pre.day_offset + DayMs
              /\ ~roll => day_offset = pre.day_offset
              /\ abs_ms = Some(ms + day_offset)
    /\ ~IsEvent => day_offset = pre.day_offset
    /\ \A k \in 2..Len(trace) :
          (trace[k - 1].ms = parse_ts_ms(BeforeMidnight)
              /\ trace[k].ms = parse_ts_ms(AfterMidnight))
              => trace[k].abs - trace[k - 1].abs = 200
    /\ ( /\ Matched
         /\ line.ts = AfterMidnight
         /\ trace[Len(trace) - 1].ms = parse_ts_ms(BeforeMidnight)
         /\ trace[Len(trace) - 1].arrow = ">"
         /\ trace[Len(trace) - 1].tid = line.tid
         /\ trace[Len(trace) - 1].method = line.method )
       => /\ MatchedDur = 200
          /\ StatOf(stats, line.method).total_ms
                = StatOf(pre.stats, line.method).total_ms + 200

C8_Witness ==
    /\ Matched
    /\ line.ts = AfterMidnight
    /\ Len(trace) >= 3
    /\ trace[Len(trace) - 1].ms = parse_ts_ms(BeforeMidnight)
    /\ trace[Len(trace) - 1].arrow = ">"
    /\ trace[Len(trace) - 1].tid = line.tid
    /\ trace[Len(trace) - 1].method = line.method
    /\ day_offset = pre.day_offset + DayMs
    /\ pre.day_offset > 0

\* ---------------------------------------------------------------------- C9
\* C9: a matched exit with a negative duration changes no count and no
\* total, its frame is still removed, and no total is ever negative.
C9_NegativeDiscarded ==
    /\ (Matched /\ MatchedDur < 0) =>
          /\ stats = pre.stats
          /\ PostStack = RemoveAt(PreStack, MatchedAt)
    /\ \A m \in DOMAIN stats : stats[m].total_ms >= 0

C9_Witness == Matched /\ MatchedDur < 0 /\ DOMAIN pre.stats # {}

\* --------------------------------------------------------------------- C10
\* C10: a completed interval (m, d >= 0) adds 1 to m's count and d to m's
\* total and touches no other method; every other step leaves the stats as
\* they were, so counts and totals never decrease.
C10_AggregatorStep ==
    /\ (Matched /\ MatchedDur >= 0) =>
          /\ StatOf(stats, line.method).count = StatOf(pre.stats, line.method).count + 1
          /\ StatOf(stats, line.method).total_ms
                = StatOf(pre.stats, line.method).total_ms + MatchedDur
          /\ \A m \in Methods \ {line.method} : StatOf(stats, m) = StatOf(pre.stats, m)
    /\ (IsEntry \/ Unmatched \/ line.kind = "skip") => stats = pre.stats
    /\ \A m \in Methods :
          /\ StatOf(stats, m).count >= StatOf(pre.stats, m).count
          /\ StatOf(stats, m).total_ms >= StatOf(pre.stats, m).total_ms

C10_Witness ==
    /\ Matched
    /\ MatchedDur > 0
    /\ StatOf(pre.stats, line.method).count = 1
    /\ StatOf(pre.stats, line.method).total_ms > 0
\* --------------------------------------------------------------------- C13
\* The loop body as a function of the state and one parsed event, and the
\* state the loop reaches on a sequence of parsed events alone.
ApplyEvent(st, e) ==
    LET c == Clock(e.ms, st.day_offset, st.last_abs_ms)
        stk == StackOf(st.stacks, e.tid)
        r == PopLoop(stk, e.method, <<>>)
        clocked == [st EXCEPT !.day_offset = c.day_offset,
                              !.last_abs_ms = Some(c.abs_ms)]
    IN  IF e.arrow = ">"
        THEN [clocked EXCEPT !.stacks = Push(st.stacks, e.tid, <<e.method, c.abs_ms>>)]
        ELSE IF stk = <<>>
        THEN [clocked EXCEPT !.stacks = SetStack(st.stacks, e.tid, <<>>)]
        ELSE [clocked EXCEPT
                !.stacks = SetStack(st.stacks, e.tid, PutBack(r.stack, r.temp)),
                !.stats = IF r.start_method = None
                          THEN st.stats
                          ELSE Aggregate(st.stats, e.method, c.abs_ms - r.start_ms[1])]
RECURSIVE RunOn(_)
RunOn(events) ==
    IF events = <<>>
    THEN [stacks |-> <<>>, stats |-> <<>>, last_abs_ms |-> None, day_offset |-> 0]
    ELSE ApplyEvent(RunOn(SubSeq(events, 1, Len(events) - 1)), events[Len(events)])

\* C13: a skipped line leaves every stack, every stat and the clock as they
\* were, so the state after any input is the state the parsed events alone
\* produce, wherever unrecognized lines stand between them.
C13_SkippedLineNoEffect ==
    /\ line.kind = "skip" => Snapshot = pre
    /\ Snapshot = RunOn(trace)

C13_Witness ==
    /\ line.kind = "skip"
    /\ ln > Len(trace) + 1
    /\ Len(trace) = 2
    /\ stats # <<>>
    /\ last_abs_ms # None

\* --------------------------------------------------------------------- C14
\* C14: every method in the stats table has count >= 1; a method is in the
\* table exactly when one of its exits closed a non-negative interval.
C14_NoZeroCountRows ==
    /\ \A m \in DOMAIN stats : stats[m].count >= 1
    /\ \A m \in Methods : m \in DOMAIN stats <=> RefCount(m) >= 1

C14_Witness ==
    /\ Matched
    /\ MatchedDur < 0
    /\ line.method \notin DOMAIN stats
    /\ DOMAIN stats # {}

\* --------------------------------------------------------------------- C15
\* C15: an Entry appends one frame (method, absolute time of the event) on
\* top of its thread's stack, keeps the frames below, and changes neither
\* the stats nor another thread's stack, also for a thread seen first.
C15_EntryStep ==
    IsEntry =>
        /\ PostStack = Append(PreStack, <<line.method, trace[Len(trace)].abs>>)
        /\ trace[Len(trace)].abs = parse_ts_ms(line.ts) + day_offset
        /\ stats = pre.stats
        /\ \A t \in Tids \ {line.tid} : StackOf(stacks, t) = StackOf(pre.stacks, t)
        /\ line.tid \notin DOMAIN pre.stacks => stacks[line.tid] = << <<line.method, abs_ms[1]>> >>

C15_Witness ==
    /\ IsEntry
    /\ PreStack # <<>>
    /\ PreStack[Len(PreStack)] # PostStack[Len(PostStack)]
    /\ \E t \in Tids : t \notin DOMAIN stacks

\* --------------------------------------------------------------------- C16
\* C16: a matched exit leaves every frame below the matched one in place,
\* with its method, start time and order.
C16_FramesBelowKept ==
    Matched =>
        /\ Len(PostStack) >= MatchedAt - 1
        /\ SubSeq(PostStack, 1, MatchedAt - 1) = SubSeq(PreStack, 1, MatchedAt - 1)

C16_Witness ==
    /\ Matched
    /\ Len(PreStack) = 3
    /\ MatchedAt = 2
    /\ PreStack[1][1] = line.method

\* --------------------------------------------------------------------- C18
\* C18: with in-range stamps a matched exit never has a negative duration
\* and always adds one to its method's count.
C18_MatchedNonNegative ==
    ((\A k \in 1..Len(trace) : InRange(k)) /\ Matched) =>
        /\ MatchedDur >= 0
        /\ StatOf(stats, line.method).count = StatOf(pre.stats, line.method).count + 1

C18_Witness ==
    /\ Matched
    /\ \A k \in 1..Len(trace) : InRange(k)
    /\ parse_ts_ms(line.ts) < trace[Len(trace) - 1].ms
    /\ MatchedDur > 0
    /\ MatchedAt < Len(PreStack)

\* --------------------------------------------------------------------- C19
EntriesOf(t) == {k \in 1..Len(trace) : trace[k].arrow = ">" /\ trace[k].tid = t}
MatchedExitsOf(t) == {k \in 1..Len(trace) : trace[k].tid = t /\ RefMatch(k) # 0}

\* C19: a thread's stack holds as many frames as it had entries minus
\* matched exits; a matched exit shrinks it by one, the frames popped above
\* the match returning in their original order.
C19_StackSize ==
    /\ \A t \in Tids :
          Len(StackOf(stacks, t)) = Cardinality(EntriesOf(t)) - Cardinality(MatchedExitsOf(t))
    /\ Matched =>
          /\ Len(PostStack) = Len(PreStack) - 1
          /\ SubSeq(PostStack, MatchedAt, Len(PostStack))
                = SubSeq(PreStack, MatchedAt + 1, Len(PreStack))

C19_Witness ==
    /\ Matched
    /\ Len(PreStack) = 3
    /\ MatchedAt = 1
    /\ PreStack[2] # PreStack[3]

\* --------------------------------------------------------------------- C20
\* The rollover offset in force at the k-th parsed event.
OffsetAt(k) == trace[k].abs - trace[k].ms

\* C20: the clock is global: after every parsed event, matched or dropped,
\* the last absolute time is that event's; a time-of-day decrease between
\* two consecutive parsed events, whatever their threads, adds one day to
\* the offset of that and of every later event.
C20_GlobalClock ==
    /\ IsEvent =>
          /\ last_abs_ms = abs_ms
          /\ abs_ms = Some(trace[Len(trace)].abs)
    /\ Len(trace) >= 1 => OffsetAt(1) = 0
    /\ \A k \in 2..Len(trace) :
          OffsetAt(k) = OffsetAt(k - 1)
                        + (IF trace[k].ms < trace[k - 1].ms THEN DayMs ELSE 0)
    /\ Len(trace) >= 1 => day_offset = OffsetAt(Len(trace))

C20_Witness ==
    /\ Len(trace) = 3
    /\ trace[1].arrow = ">"
    /\ trace[2].arrow = "<" /\ trace[2].tid # trace[1].tid
    /\ trace[2].ms < trace[1].ms
    /\ StackOf(pre.stacks, trace[2].tid) = <<>>
    /\ trace[3].tid = trace[1].tid /\ trace[3].arrow = "<"
    /\ trace[3].method = trace[1].method
    /\ trace[3].ms = trace[2].ms
    /\ StatOf(stats, trace[3].method).total_ms = trace[3].ms + DayMs - trace[1].ms
\* --------------------------------------------------------------------- C17
\* The parsed events of one thread, in order.
Proj(t) == SelectSeq(trace, LAMBDA e : e.tid = t)
\* The stats when the events of thread t are processed on their own.
AloneStats(t) == RunOn(Proj(t)).stats
\* The count of m in such a run.
AloneCount(t, m) == StatOf(AloneStats(t), m).count
RECURSIVE SumAlone(_, _, _)
\* Sum over the threads T of the count of m in the per-thread stats.
SumAlone(alone, T, m) ==
    IF T = {} THEN 0
    ELSE LET t == CHOOSE x \in T : TRUE
         IN  StatOf(alone[t], m).count + SumAlone(alone, T \ {t}, m)

\* C17: with in-range stamps the count of every method is the sum of the
\* counts each thread's events give on their own, so it is the same for
\* every interleaving of the same per-thread sequences.
C17_InterleavingIndependent ==
    (\A k \in 1..Len(trace) : InRange(k)) =>
        \A alone \in {[t \in Tids |-> AloneStats(t)]} :
            \A m \in Methods : StatOf(stats, m).count = SumAlone(alone, Tids, m)

C17_Witness ==
    /\ Len(trace) = 4
    /\ trace[1].tid # trace[2].tid
    /\ trace[3].tid = trace[1].tid
    /\ trace[4].tid = trace[2].tid
    /\ trace[2].ms < trace[1].ms
    /\ \A t \in Tids : AloneCount(t, "foo()V") = 1
    /\ StatOf(stats, "foo()V").count = 2
\* --------------------------------------------------------------------- C11
\* Ascending order of the method names of the report tables.
NameRank(m) == CASE m = "Bar()V" -> 1 [] m = "bar()V" -> 2 [] m = "foo()V" -> 3
\* Row a may stand right before row b: key (-avg, -count, method) of a is
\* not above that of b.
DefaultOrdered(a, b) ==
    \/ a[3] * b[2] > b[3] * a[2]
    \/ /\ a[3] * b[2] = b[3] * a[2]
       /\ \/ a[2] > b[2]
          \/ a[2] = b[2] /\ NameRank(a[1]) <= NameRank(b[1])

\* C11: the returned rows are one row per method of stats, with its count,
\* total and average, in descending average, then descending count, then
\* ascending method name.
C11_DefaultOrdering ==
    pc \in {"returned", "sorted", "printed"} =>
        /\ Len(returned) = Cardinality(DOMAIN stats)
        /\ {returned[i][1] : i \in 1..Len(returned)} = DOMAIN stats
        /\ \A i \in 1..Len(returned) :
              LET r == returned[i]
              IN  /\ r[2] = stats[r[1]].count
                  /\ r[3] = stats[r[1]].total_ms
                  /\ r[4][2] > 0
                  /\ r[4][1] * r[2] = r[3] * r[4][2]
        /\ \A i \in 1..(Len(returned) - 1) : DefaultOrdered(returned[i], returned[i + 1])

C11_Witness ==
    /\ pc = "returned"
    /\ Len(returned) = 3
    /\ returned[1][4] = returned[2][4] /\ returned[2][4] = returned[3][4]
    /\ returned[1][2] > returned[2][2]
    /\ returned[2][2] = returned[3][2]
    /\ returned[1][3] > 0

\* --------------------------------------------------------------------- C12
RowSet(rs) == {rs[i] : i \in 1..Len(rs)}

\* C12: the re-sort by count, total or method yields the same rows in
\* another order: none added, lost or altered before the truncation, which
\* only drops rows.
C12_ResortPermutation ==
    /\ pc = "sorted" =>
          /\ Len(rows) = Len(returned)
          /\ RowSet(rows) = RowSet(returned)
    /\ pc = "printed" => RowSet(rows) \subseteq RowSet(returned)

C12_Witness ==
    /\ pc = "sorted"
    /\ args.sort = "method"
    /\ Len(rows) = 3
    /\ rows # returned
    /\ rows[1][1] = "Bar()V" /\ rows[2][1] = "bar()V"
====
